---- MODULE Spec2Model ----
(***************************************************************************)
(* Model of the portal bot of src/index.js: on guildMemberAdd a category   *)
(* and its text channels are ensured for the member (ensurePortal), on     *)
(* guildMemberRemove they are deleted (deletePortal).                      *)
(*                                                                         *)
(* index.js holds two program texts: lines 1-215 (called build 1 here) and *)
(* lines 217-346 (build 2: no isValidSnowflake, no deletePortal, no        *)
(* guildMemberRemove handler, overwritesFor re-evaluated at every use).    *)
(* The variable build says which of the two texts is the running program.  *)
(*                                                                         *)
(* Strings are sequences of one-character strings, so that slice, replace, *)
(* split, trim, startsWith and endsWith are computed and not assumed.      *)
(*                                                                         *)
(* A handler is a task.  The synchronous code between two awaits is one    *)
(* atomic step: a Start action runs a handler up to the first remote call  *)
(* it issues, a Resume action applies the outcome of the pending call      *)
(* (success changes the guild, failure throws) and runs on to the next     *)
(* call issued, or to the end of the handler.  guild.channels.cache is the *)
(* variable channels, kept in insertion order, which is the order of the   *)
(* channel ids.                                                            *)
(*                                                                         *)
(* Of the platform the model takes what the calls of index.js rely on: a   *)
(* create stores the name, parent and overwrites it is given under a fresh *)
(* id, a call on a channel that is gone is rejected (as is the create of a *)
(* text channel under a category that is gone), any call may be rejected   *)
(* for another reason, and the delete of a category leaves the channels    *)
(* under it in place.                                                      *)
(***************************************************************************)
EXTENDS Integers, Sequences, FiniteSets, TLC

\* ------------------------------------------------------------------ bounds

\* handlers that can be suspended at the same time
MaxTasks == 2
\* join and leave events delivered in a run whose handlers do not overlap
MaxEvents == 3
\* join and leave events delivered in a run whose handlers may overlap
MaxOverlapEvents == 2
\* remote calls rejected for a reason other than a missing target
MaxFailures == 2
\* changes of the guild's role set
MaxRoleChanges == 1
\* characters of a username given to categoryNameFor on its own
MaxNameLen == 2

\* ----------------------------------------------------------------- strings

LowerLetters ==
  <<"a","b","c","d","e","f","g","h","i","j","k","l","m",
    "n","o","p","q","r","s","t","u","v","w","x","y","z">>

UpperLetters ==
  <<"A","B","C","D","E","F","G","H","I","J","K","L","M",
    "N","O","P","Q","R","S","T","U","V","W","X","Y","Z">>

Digits == {"0","1","2","3","4","5","6","7","8","9"}

Range(s) == {s[i] : i \in 1..Len(s)}

\* String.prototype.toLowerCase on one character
toLowerCase(c) ==
  IF c \in Range(UpperLetters)
    THEN LowerLetters[CHOOSE i \in 1..Len(UpperLetters) : UpperLetters[i] = c]
    ELSE c

\* the characters the class [a-z0-9-_] with flag i keeps
SafeChar(c) ==
  c \in Range(LowerLetters) \cup Range(UpperLetters) \cup Digits \cup {"-", "_"}

\* s.slice(-4)
sliceLast4(s) == IF Len(s) <= 4 THEN s ELSE SubSeq(s, Len(s) - 3, Len(s))

startsWith(s, p) == Len(p) <= Len(s) /\ SubSeq(s, 1, Len(p)) = p

endsWith(s, p) == Len(p) <= Len(s) /\ SubSeq(s, Len(s) - Len(p) + 1, Len(s)) = p

\* s.trim(), white space being the blank
RECURSIVE trimStart(_)
trimStart(s) == IF s # <<>> /\ Head(s) = " " THEN trimStart(Tail(s)) ELSE s

RECURSIVE trimEnd(_)
trimEnd(s) ==
  IF s # <<>> /\ s[Len(s)] = " " THEN trimEnd(SubSeq(s, 1, Len(s) - 1)) ELSE s

trim(s) == trimEnd(trimStart(s))

\* s.split(','): the pieces between commas, the empty ones included
RECURSIVE splitFrom(_, _)
splitFrom(s, cur) ==
  IF s = <<>> THEN <<cur>>
  ELSE IF Head(s) = "," THEN <<cur>> \o splitFrom(Tail(s), <<>>)
  ELSE splitFrom(Tail(s), Append(cur, Head(s)))

split(s) == splitFrom(s, <<>>)

NonEmpty(s) == s # <<>>

\* CHANNEL_NAMES.split(',').map(s => s.trim()).filter(Boolean)
parseChannelNames(raw) ==
  LET parts == split(raw)
      trimmed == [k \in 1..Len(parts) |-> trim(parts[k])]
  IN  SelectSeq(trimmed, NonEmpty)

\* ------------------------------------------------------------ configuration

CATEGORY_PREFIX == <<"c","l","i","e","n","t","-">>

SnowflakeMinLen == 17
SnowflakeMaxLen == 20

Pad13 == <<"1","0","0","0","0","0","0","0","0","0","0","0","0">>

\* guild.id, which is also the id of the @everyone role
GuildId == Pad13 \o <<"0","0","0","1">>

\* a well-formed role id
StaffId == Pad13 \o <<"5","5","5","5">>

\* values of the environment variable STAFF_ROLE_ID: unset, malformed, well
\* formed, well formed with a blank before it
StaffConfigs == { <<>>, <<"s","t","a","f","f">>, StaffId, <<" ">> \o StaffId }

\* values of the environment variable CHANNEL_NAMES
ChannelConfigs ==
  { <<"G","e","n",","," ","F","i","l","e","s",","," ">>,
    <<" ",","," ">>,
    <<>> }

Members == {"m1", "m2", "m3"}

\* member.id: m1 and m2 share their last four characters
MemberId(m) ==
  CASE m = "m1" -> Pad13 \o <<"7","1","2","3">>
    [] m = "m2" -> <<"2">> \o Tail(Pad13) \o <<"7","1","2","3">>
    [] m = "m3" -> Pad13 \o <<"8","8","4","0">>

\* member.user.username as an event can carry it: m1 is seen under two names,
\* and the names of m1 and m2 can sanitize to the same string
UsernamesOf(m) ==
  CASE m = "m1" -> { <<"J","o",".","H","n","!">>, <<"E","l","_","s","e">> }
    [] m = "m2" -> { <<"j","o","h","n">> }
    [] m = "m3" -> { <<"E","l","_","s","e">> }

\* ------------------------------------------------------------------ helpers

isValidSnowflake(id) ==
  /\ Len(id) >= SnowflakeMinLen
  /\ Len(id) <= SnowflakeMaxLen
  /\ \A k \in 1..Len(id) : id[k] \in Digits

\* categoryNameFor with the replace of line 42 without its flag g: only the
\* first character outside the class is removed
categoryNameForFirstOnly(id, name) ==
  LET short == sliceLast4(id)
      bad == {k \in 1..Len(name) : ~SafeChar(name[k])}
      first == IF bad = {} THEN 0 ELSE CHOOSE k \in bad : \A j \in bad : k <= j
      kept == IF first = 0 THEN name
              ELSE SubSeq(name, 1, first - 1) \o SubSeq(name, first + 1, Len(name))
      safe == [k \in 1..Len(kept) |-> toLowerCase(kept[k])]
  IN  CATEGORY_PREFIX \o safe \o <<"-">> \o short

\* lines 40-44 and 250-254
categoryNameFor(id, name) ==
  LET short == sliceLast4(id)
      kept == SelectSeq(name, SafeChar)
      safe == [k \in 1..Len(kept) |-> toLowerCase(kept[k])]
  IN  CATEGORY_PREFIX \o safe \o <<"-">> \o short

MemberAllow ==
  {"ViewChannel", "SendMessages", "ReadMessageHistory", "AttachFiles", "EmbedLinks"}

StaffAllow ==
  {"ViewChannel", "SendMessages", "ReadMessageHistory", "ManageMessages"}

BaseOverwrites(memberId) ==
  << [id |-> GuildId, allow |-> {}, deny |-> {"ViewChannel"}],
     [id |-> memberId, allow |-> MemberAllow, deny |-> {}] >>

\* build 1, lines 64-65: the staff entry is wanted
hasStaff1(staffRoleId, guildRoles) ==
  isValidSnowflake(trim(staffRoleId)) /\ trim(staffRoleId) \in guildRoles

\* build 2, lines 270 and 338: the staff entry is wanted
hasStaff2(staffRoleId, guildRoles) == staffRoleId # <<>>

\* build 1, lines 47-78
overwritesFor1(staffRoleId, guildRoles, memberId) ==
  IF hasStaff1(staffRoleId, guildRoles)
    THEN Append(BaseOverwrites(memberId),
                [id |-> trim(staffRoleId), allow |-> StaffAllow, deny |-> {}])
    ELSE BaseOverwrites(memberId)

\* build 2, lines 256-282
overwritesFor2(staffRoleId, guildRoles, memberId) ==
  IF hasStaff2(staffRoleId, guildRoles)
    THEN Append(BaseOverwrites(memberId),
                [id |-> staffRoleId, allow |-> StaffAllow, deny |-> {}])
    ELSE BaseOverwrites(memberId)

overwritesFor(b, staffRoleId, guildRoles, memberId) ==
  IF b = 1 THEN overwritesFor1(staffRoleId, guildRoles, memberId)
           ELSE overwritesFor2(staffRoleId, guildRoles, memberId)

hasStaff(b, staffRoleId, guildRoles) ==
  IF b = 1 THEN hasStaff1(staffRoleId, guildRoles)
           ELSE hasStaff2(staffRoleId, guildRoles)

\* permissionOverwrites.cache.has(id)
owHas(ow, id) == \E k \in 1..Len(ow) : ow[k].id = id

\* -------------------------------------------------------------------- state

VARIABLES
  build,          \* which program text of index.js runs: 1 or 2
  STAFF_ROLE_ID,  \* process.env.STAFF_ROLE_ID
  CHANNEL_NAMES,  \* process.env.CHANNEL_NAMES
  channels,       \* guild.channels.cache: a set of channel records
  nextId,         \* the id the platform gives the next channel created
  roles,          \* guild.roles.cache, the @everyone role left out
  tasks,          \* the handler runs
  failures,       \* remote calls that have failed so far
  events,         \* events delivered so far
  roleChanges     \* changes of the guild's role set so far

vars ==
  <<build, STAFF_ROLE_ID, CHANNEL_NAMES, channels, nextId, roles,
    tasks, failures, events, roleChanges>>

Tasks == 1..MaxTasks

Call(op, target, name, perms, staff) ==
  [op |-> op, target |-> target, name |-> name, perms |-> perms,
   staff |-> staff, res |-> "pending"]

IdleTask ==
  [kind |-> "none", member |-> "none", username |-> <<>>, ev |-> 0,
   pc |-> "idle", outcome |-> "none",
   catName |-> <<>>, channelNames |-> <<>>, perms |-> <<>>, category |-> 0,
   i |-> 0, first |-> 0,
   categories |-> <<>>, guess |-> <<>>, fallback |-> FALSE, ci |-> 0,
   children |-> <<>>, chi |-> 0, visited |-> <<>>,
   calls |-> <<>>]

\* ----------------------------------------------------------- the cache

Min(S) == CHOOSE x \in S : \A y \in S : x <= y

\* the ids of S in insertion order
RECURSIVE inOrder(_)
inOrder(S) == IF S = {} THEN <<>> ELSE <<Min(S)>> \o inOrder(S \ {Min(S)})

\* cache.find: the id of the first of the matches, 0 for undefined
firstId(ids) == IF ids = {} THEN 0 ELSE Min(ids)

inCache(chs, id) == \E ch \in chs : ch.id = id

\* lines 90-92
findCategory(chs, catName) ==
  firstId({ch.id : ch \in {c \in chs : c.type = "GuildCategory" /\ c.name = catName}})

\* the test of lines 108-110 with the parent compared to the channel's own id
findTextOwnId(chs, parent, name) ==
  firstId({ch.id : ch \in {c \in chs : /\ c.type = "GuildText"
                                       /\ c.id = parent
                                       /\ c.name = name}})

\* lines 108-110
findText(chs, parent, name) ==
  firstId({ch.id : ch \in {c \in chs : /\ c.type = "GuildText"
                                       /\ c.parentId = parent
                                       /\ c.name = name}})

\* lines 189-191
firstText(chs, parent) ==
  firstId({ch.id : ch \in {c \in chs : c.type = "GuildText" /\ c.parentId = parent}})

\* lines 127-135 with the overwrites asked for the short id of line 41
findMemberCategoriesShortId(chs, memberId) ==
  inOrder({ch.id : ch \in {c \in chs : /\ c.type = "GuildCategory"
                                      /\ startsWith(c.name, CATEGORY_PREFIX)
                                      /\ owHas(c.ow, sliceLast4(memberId))}})

\* lines 127-135
findMemberCategories(chs, memberId) ==
  inOrder({ch.id : ch \in {c \in chs : /\ c.type = "GuildCategory"
                                      /\ startsWith(c.name, CATEGORY_PREFIX)
                                      /\ owHas(c.ow, memberId)}})

\* lines 164-167
guessCategories(chs, memberId) ==
  LET suffix == <<"-">> \o sliceLast4(memberId)
  IN  inOrder({ch.id : ch \in {c \in chs : /\ c.type = "GuildCategory"
                                          /\ endsWith(c.name, suffix)
                                          /\ startsWith(c.name, CATEGORY_PREFIX)}})

\* lines 145 and 170
childrenOf(chs, parent) == inOrder({ch.id : ch \in {c \in chs : c.parentId = parent}})

\* ------------------------------------------------------- handler endings

\* the handler's body ran to its end
finish(tk) == [tk EXCEPT !.pc = "done", !.outcome = "ok"]

\* a handler without its catch-all: the error is an unhandled rejection
handlerCatchMissing(tk) == [tk EXCEPT !.pc = "done", !.outcome = "crashed"]

\* the catch-all of a handler, lines 200-202, 210-212 and 341-343: the error
\* is logged and the handler ends
handlerCatch(tk) == [tk EXCEPT !.pc = "done", !.outcome = "caught"]

\* an error no handler caught is an unhandled rejection: the process ends
crashed == \E t \in Tasks : tasks[t].outcome = "crashed"

setRes(tk, res) == [tk EXCEPT !.calls[Len(tk.calls)].res = res]

issue(tk, pc, call) == [tk EXCEPT !.pc = pc, !.calls = Append(tk.calls, call)]

\* ------------------------------------------------- guildMemberAdd, by steps

\* lines 189-199 and 333-340: after ensurePortal returned the category
afterEnsure(tk, chs) ==
  LET first == firstText(chs, tk.category)
  IN  IF first # 0
        THEN issue([tk EXCEPT !.first = first], "send",
                   Call("send", first, <<>>, <<>>,
                        hasStaff(build, STAFF_ROLE_ID, roles)))
        ELSE finish(tk)

\* the perms a create of the channel loop carries: build 1 holds them in a
\* local (line 87), build 2 evaluates overwritesFor again (line 318)
loopPerms(tk) ==
  IF build = 1 THEN tk.perms
  ELSE overwritesFor(build, STAFF_ROLE_ID, roles, MemberId(tk.member))

\* the channel loop with break for continue at line 111: it ends at the first
\* channel that exists
channelLoopBreak(tk, chs, from) ==
  LET missing == {k \in from..Len(tk.channelNames) :
                    findText(chs, tk.category, tk.channelNames[k]) = 0}
  IN  IF missing = {} \/ Min(missing \cup {Len(tk.channelNames) + 1}) # from
        THEN afterEnsure(tk, chs)
        ELSE issue([tk EXCEPT !.i = from, !.perms = loopPerms(tk)], "createText",
                   Call("createText", tk.category, tk.channelNames[from],
                        loopPerms(tk), FALSE))

\* lines 107-122 and 308-323: the channel loop from index from on, up to the
\* next create it issues or to the return
channelLoop(tk, chs, from) ==
  LET missing == {k \in from..Len(tk.channelNames) :
                    findText(chs, tk.category, tk.channelNames[k]) = 0}
  IN  IF missing = {}
        THEN afterEnsure(tk, chs)
        ELSE LET k == Min(missing)
             IN  issue([tk EXCEPT !.i = k, !.perms = loopPerms(tk)], "createText",
                       Call("createText", tk.category, tk.channelNames[k],
                            loopPerms(tk), FALSE))

\* find-or-create without the else branch of lines 101-104: a category
\* that exists keeps the overwrites it has
findOrCreateNoRefresh(tk, chs) ==
  LET cat == findCategory(chs, tk.catName)
  IN  IF cat = 0
        THEN issue(tk, "createCat", Call("createCat", 0, tk.catName, tk.perms, FALSE))
        ELSE channelLoop([tk EXCEPT !.category = cat], chs, 1)

\* lines 89-104 and 291-305: find the category, create it or refresh it
findOrCreate(tk, chs) ==
  LET cat == findCategory(chs, tk.catName)
  IN  IF cat = 0
        THEN issue(tk, "createCat", Call("createCat", 0, tk.catName, tk.perms, FALSE))
        ELSE issue([tk EXCEPT !.category = cat], "setPerms",
                   Call("setPerms", cat, <<>>, tk.perms, FALSE))

\* the entry of ensurePortal without the test of line 85
ensurePortalEntryNoTest(tk, chs) ==
  findOrCreate(
    [tk EXCEPT !.perms = overwritesFor(build, STAFF_ROLE_ID, roles,
                                       MemberId(tk.member))], chs)

\* lines 82-87 and 285-288: the entry of ensurePortal
ensurePortalEntry(tk, chs) ==
  IF Len(tk.channelNames) = 0
    THEN handlerCatch(tk)
    ELSE findOrCreate(
           [tk EXCEPT !.perms = overwritesFor(build, STAFF_ROLE_ID, roles,
                                              MemberId(tk.member))], chs)

\* --------------------------------------------- guildMemberRemove, by steps

list(tk) == IF tk.fallback THEN tk.guess ELSE tk.categories

\* lines 142-146 and 168-171: the loop over the categories from index k on,
\* up to the first delete it issues or to the end of the loop
enterCategory(tk, chs, k) ==
  IF k > Len(list(tk))
    THEN finish(tk)
    ELSE LET cat == list(tk)[k]
             children == childrenOf(chs, cat)
             t1 == [tk EXCEPT !.ci = k, !.children = children,
                              !.visited = Append(tk.visited,
                                                 [cat |-> cat, children |-> children]),
                              !.chi = IF children = <<>> THEN 0 ELSE 1]
         IN  IF children = <<>>
               THEN issue(t1, "delCat", Call("delCat", cat, <<>>, <<>>, FALSE))
               ELSE issue(t1, "delChild",
                          Call("delChild", children[1], <<>>, <<>>, FALSE))

\* lines 146-155 and 171-172: after the delete of child chi, the next child
\* or the category
nextChild(tk) ==
  IF tk.chi < Len(tk.children)
    THEN issue([tk EXCEPT !.chi = tk.chi + 1], "delChild",
               Call("delChild", tk.children[tk.chi + 1], <<>>, <<>>, FALSE))
    ELSE issue(tk, "delCat", Call("delCat", list(tk)[tk.ci], <<>>, <<>>, FALSE))

\* lines 157-159 and 174-176 without the try around the category: the error
\* leaves deletePortal
catchCategoryMissing(tk, chs) == handlerCatch(tk)

\* lines 157-159 and 174-176: the catch around one category; the loop goes on
catchCategory(tk, chs) == enterCategory(tk, chs, tk.ci + 1)

\* a rejected child.delete: caught per child in the primary loop (lines
\* 149-151), by the catch around the category in the fallback loop (line 171
\* has no try of its own)
childDeleteFailed(tk, chs) ==
  IF tk.fallback THEN catchCategory(tk, chs) ELSE nextChild(tk)

\* the entry of deletePortal with the test of line 162 negated
deletePortalEntryNegated(tk, chs) ==
  LET cats == findMemberCategories(chs, MemberId(tk.member))
  IN  IF Len(cats) = 0
        THEN enterCategory([tk EXCEPT !.categories = cats], chs, 1)
        ELSE enterCategory(
               [tk EXCEPT !.categories = cats, !.fallback = TRUE,
                          !.guess = guessCategories(chs, MemberId(tk.member))],
               chs, 1)

\* lines 139-140, 162-167: the entry of deletePortal
deletePortalEntry(tk, chs) ==
  LET cats == findMemberCategories(chs, MemberId(tk.member))
  IN  IF Len(cats) # 0
        THEN enterCategory([tk EXCEPT !.categories = cats], chs, 1)
        ELSE enterCategory(
               [tk EXCEPT !.categories = cats, !.fallback = TRUE,
                          !.guess = guessCategories(chs, MemberId(tk.member))],
               chs, 1)

\* ------------------------------------------------------------------ actions

Init ==
  /\ build \in {1, 2}
  /\ STAFF_ROLE_ID \in StaffConfigs
  /\ CHANNEL_NAMES \in ChannelConfigs
  /\ channels = {}
  /\ nextId = 1
  /\ roles \in {{}, {StaffId}}
  /\ tasks = [t \in Tasks |-> IdleTask]
  /\ failures = 0
  /\ events = 0
  /\ roleChanges = 0

\* handlers resumed under a lock held by the handler whose call is
\* outstanding longest: while a call is stuck no other handler resumes
pendingUnderLock(t, pc) ==
  /\ ~crashed
  /\ tasks[t].pc = pc
  /\ \A u \in Tasks : tasks[u].pc # "stuck"

\* the call handler t awaits at pc can settle: every handler is resumed on
\* its own promise, lines 186, 196 and 208
pending(t, pc) == ~crashed /\ tasks[t].pc = pc

running(t) == tasks[t].pc \notin {"idle", "done"}

\* the events are taken into the task slots in turn; a slot is taken again
\* once its handler has ended
free(t) ==
  /\ ~crashed
  /\ events < MaxEvents
  /\ t = (events % MaxTasks) + 1
  /\ ~running(t)

\* the record of a handler that starts
newTask(kind, m, n) ==
  [IdleTask EXCEPT !.kind = kind, !.member = m, !.username = n, !.ev = events + 1]

Quiet == \A t \in Tasks : ~running(t)

env == <<build, STAFF_ROLE_ID, CHANNEL_NAMES, roles, roleChanges>>

\* a remote call is rejected: by the platform when its target is gone
\* (forced), or for any other reason (counted in failures)
Rejected(forced) ==
  /\ forced \/ failures < MaxFailures
  /\ failures' = IF forced THEN failures ELSE failures + 1

\* client.on('guildMemberAdd'), lines 184-187 and 327-330
StartJoin(t, m, n) ==
  /\ free(t)
  /\ tasks' = [tasks EXCEPT ![t] =
       ensurePortalEntry(
         [newTask("join", m, n) EXCEPT
            !.catName = categoryNameFor(MemberId(m), n),
            !.channelNames = parseChannelNames(CHANNEL_NAMES)],
         channels)]
  /\ events' = events + 1
  /\ UNCHANGED <<env, channels, nextId, failures>>

\* client.on('guildMemberRemove'), lines 206-209: build 2 has no such handler
StartLeave(t, m, n) ==
  /\ free(t)
  /\ build = 1
  /\ tasks' = [tasks EXCEPT ![t] = deletePortalEntry(newTask("leave", m, n), channels)]
  /\ events' = events + 1
  /\ UNCHANGED <<env, channels, nextId, failures>>

\* a create of the category that resolves only while the guild has no
\* category of that name: a compare-and-create
CreateCatOkCompare(t) ==
  /\ pending(t, "createCat")
  /\ findCategory(channels, tasks[t].catName) = 0
  /\ LET tk == tasks[t]
         ch == [id |-> nextId, type |-> "GuildCategory", name |-> tk.catName,
                parentId |-> 0, ow |-> tk.perms]
     IN  /\ channels' = channels \cup {ch}
         /\ nextId' = nextId + 1
         /\ tasks' = [tasks EXCEPT ![t] =
              channelLoop([setRes(tk, "ok") EXCEPT !.category = nextId], channels', 1)]
  /\ UNCHANGED <<env, events, failures>>

\* guild.channels.create of the category resolves, lines 95-100
CreateCatOk(t) ==
  /\ pending(t, "createCat")
  /\ LET tk == tasks[t]
         ch == [id |-> nextId, type |-> "GuildCategory", name |-> tk.catName,
                parentId |-> 0, ow |-> tk.perms]
     IN  /\ channels' = channels \cup {ch}
         /\ nextId' = nextId + 1
         /\ tasks' = [tasks EXCEPT ![t] =
              channelLoop([setRes(tk, "ok") EXCEPT !.category = nextId], channels', 1)]
  /\ UNCHANGED <<env, events, failures>>

\* category.permissionOverwrites.set resolves, line 103
SetPermsOk(t) ==
  /\ pending(t, "setPerms")
  /\ LET tk == tasks[t]
     IN  /\ inCache(channels, tk.category)
         /\ channels' = {IF ch.id = tk.category THEN [ch EXCEPT !.ow = tk.perms] ELSE ch
                           : ch \in channels}
         /\ tasks' = [tasks EXCEPT ![t] = channelLoop(setRes(tk, "ok"), channels', 1)]
  /\ UNCHANGED <<env, events, nextId, failures>>

\* guild.channels.create of a text channel resolves, lines 113-119
CreateTextOk(t) ==
  /\ pending(t, "createText")
  /\ LET tk == tasks[t]
         ch == [id |-> nextId, type |-> "GuildText", name |-> tk.channelNames[tk.i],
                parentId |-> tk.category, ow |-> tk.perms]
     IN  /\ inCache(channels, tk.category)
         /\ channels' = channels \cup {ch}
         /\ nextId' = nextId + 1
         /\ tasks' = [tasks EXCEPT ![t] =
              channelLoop(setRes(tk, "ok"), channels', tk.i + 1)]
  /\ UNCHANGED <<env, events, failures>>

\* first.send resolves, lines 196-198
SendOk(t) ==
  /\ pending(t, "send")
  /\ inCache(channels, tasks[t].first)
  /\ tasks' = [tasks EXCEPT ![t] = finish(setRes(tasks[t], "ok"))]
  /\ UNCHANGED <<env, events, channels, nextId, failures>>

\* a join handler that issues a rejected call once more
JoinCallFailsRetry(t) ==
  /\ ~crashed
  /\ tasks[t].pc \in {"createCat", "setPerms", "createText", "send"}
  /\ LET tk == tasks[t]
         target == IF tk.pc = "send" THEN tk.first ELSE tk.category
     IN  Rejected(tk.pc # "createCat" /\ ~inCache(channels, target))
  /\ tasks' = [tasks EXCEPT ![t] =
       issue(setRes(tasks[t], "fail"), tasks[t].pc,
             [tasks[t].calls[Len(tasks[t].calls)] EXCEPT !.res = "pending"])]
  /\ UNCHANGED <<env, events, channels, nextId>>

\* a remote call of the join handler rejects: ensurePortal has no try, the
\* error reaches the catch-all of the handler
JoinCallFails(t) ==
  /\ ~crashed
  /\ tasks[t].pc \in {"createCat", "setPerms", "createText", "send"}
  /\ LET tk == tasks[t]
         target == IF tk.pc = "send" THEN tk.first ELSE tk.category
     IN  Rejected(tk.pc # "createCat" /\ ~inCache(channels, target))
  /\ tasks' = [tasks EXCEPT ![t] = handlerCatch(setRes(tasks[t], "fail"))]
  /\ UNCHANGED <<env, events, channels, nextId>>

\* child.delete resolves, lines 148 and 171
DelChildOk(t) ==
  /\ pending(t, "delChild")
  /\ LET tk == tasks[t]
         child == tk.children[tk.chi]
     IN  /\ inCache(channels, child)
         /\ channels' = {ch \in channels : ch.id # child}
         /\ tasks' = [tasks EXCEPT ![t] = nextChild(setRes(tk, "ok"))]
  /\ UNCHANGED <<env, events, nextId, failures>>

\* child.delete rejects
DelChildFails(t) ==
  /\ pending(t, "delChild")
  /\ Rejected(~inCache(channels, tasks[t].children[tasks[t].chi]))
  /\ tasks' = [tasks EXCEPT ![t] = childDeleteFailed(setRes(tasks[t], "fail"), channels)]
  /\ UNCHANGED <<env, events, channels, nextId>>

\* category.delete resolves, lines 155 and 172; the platform keeps the
\* channels that were under it
DelCatOk(t) ==
  /\ pending(t, "delCat")
  /\ LET tk == tasks[t]
         cat == list(tk)[tk.ci]
     IN  /\ inCache(channels, cat)
         /\ channels' = {ch \in channels : ch.id # cat}
         /\ tasks' = [tasks EXCEPT ![t] =
              enterCategory(setRes(tk, "ok"), channels', tk.ci + 1)]
  /\ UNCHANGED <<env, events, nextId, failures>>

\* category.delete rejects
DelCatFails(t) ==
  /\ pending(t, "delCat")
  /\ Rejected(~inCache(channels, list(tasks[t])[tasks[t].ci]))
  /\ tasks' = [tasks EXCEPT ![t] = catchCategory(setRes(tasks[t], "fail"), channels)]
  /\ UNCHANGED <<env, events, channels, nextId>>

\* the staff role is created in the guild, or deleted from it
RoleChange ==
  /\ ~crashed
  /\ roleChanges < MaxRoleChanges
  /\ roles' = IF StaffId \in roles THEN roles \ {StaffId} ELSE roles \cup {StaffId}
  /\ roleChanges' = roleChanges + 1
  /\ UNCHANGED <<build, STAFF_ROLE_ID, CHANNEL_NAMES,
                 channels, nextId, tasks, failures, events>>

Resume(t) ==
  \/ CreateCatOk(t)
  \/ SetPermsOk(t)
  \/ CreateTextOk(t)
  \/ SendOk(t)
  \/ JoinCallFails(t)
  \/ DelChildOk(t)
  \/ DelChildFails(t)
  \/ DelCatOk(t)
  \/ DelCatFails(t)

\* an event is taken whatever the other handlers are doing
AnyStartJoin(t, m, n) == events < MaxOverlapEvents /\ StartJoin(t, m, n)

AnyStartLeave(t, m, n) == events < MaxOverlapEvents /\ StartLeave(t, m, n)

Next ==
  \/ \E t \in Tasks, m \in Members : \E n \in UsernamesOf(m) : AnyStartJoin(t, m, n)
  \/ \E t \in Tasks, m \in Members : \E n \in UsernamesOf(m) : AnyStartLeave(t, m, n)
  \/ \E t \in Tasks : Resume(t)
  \/ RoleChange

Spec == Init /\ [][Next]_vars

\* the handlers one after the other: an event is taken only when no handler
\* is suspended
SeqStartJoin(t, m, n) == Quiet /\ StartJoin(t, m, n)

SeqStartLeave(t, m, n) == Quiet /\ StartLeave(t, m, n)

NextSeq ==
  \/ \E t \in Tasks, m \in Members : \E n \in UsernamesOf(m) : SeqStartJoin(t, m, n)
  \/ \E t \in Tasks, m \in Members : \E n \in UsernamesOf(m) : SeqStartLeave(t, m, n)
  \/ \E t \in Tasks : Resume(t)
  \/ RoleChange

SpecSeq == Init /\ [][NextSeq]_vars

\* ------------------------------------------------------ fair scheduling

\* the remote call handler t awaits never returns: its promise stays
\* pending and the handler is never resumed; one call at most is stuck
Stuck(t) ==
  /\ ~crashed
  /\ running(t)
  /\ \A u \in Tasks : tasks[u].pc # "stuck"
  /\ tasks' = [tasks EXCEPT ![t] = [setRes(tasks[t], "stuck") EXCEPT !.pc = "stuck"]]
  /\ UNCHANGED <<env, channels, nextId, failures, events>>

\* one configuration: no staff role, two channels
InitFair ==
  /\ Init
  /\ STAFF_ROLE_ID = <<>>
  /\ CHANNEL_NAMES = <<"G","e","n",","," ","F","i","l","e","s",","," ">>
  /\ roles = {}

NextFair ==
  \/ \E t \in Tasks, m \in Members : \E n \in UsernamesOf(m) : AnyStartJoin(t, m, n)
  \/ \E t \in Tasks, m \in Members : \E n \in UsernamesOf(m) : AnyStartLeave(t, m, n)
  \/ \E t \in Tasks : Resume(t)
  \/ \E t \in Tasks : Stuck(t)

\* the event loop runs the continuation of every call that has settled
Fairness == \A t \in Tasks : WF_vars(Resume(t))

SpecFair == InitFair /\ [][NextFair]_vars /\ Fairness

\* ----------------------------------------------- categoryNameFor on its own

\* characters of the usernames given to categoryNameFor: letters of both
\* cases, a digit, the two signs the class keeps, one it removes
NameChars == {"j", "J", "7", "-", "_", "."}

Usernames == UNION {[1..k -> NameChars] : k \in 1..MaxNameLen}

\* every task holds a member and a username; nothing else has happened
InitName ==
  /\ build \in {1, 2}
  /\ STAFF_ROLE_ID = <<>>
  /\ CHANNEL_NAMES = <<>>
  /\ channels = {}
  /\ nextId = 1
  /\ roles = {}
  /\ tasks \in [Tasks -> {[IdleTask EXCEPT !.kind = "join", !.member = m,
                                           !.username = n] :
                             m \in Members, n \in Usernames}]
  /\ failures = 0
  /\ events = 0
  /\ roleChanges = 0

\* categoryNameFor(member) is called for the member of task t, lines 40-44
\* and 250-254
CallCategoryNameFor(t) ==
  /\ tasks' = [tasks EXCEPT ![t].catName =
       categoryNameFor(MemberId(tasks[t].member), tasks[t].username)]
  /\ UNCHANGED <<env, channels, nextId, failures, events>>

NextName == \E t \in Tasks : CallCategoryNameFor(t)

SpecName == InitName /\ [][NextName]_vars

\* ------------------------------------------------------------- vocabulary

isJoin(t) == tasks[t].kind = "join"

isLeave(t) == tasks[t].kind = "leave"

isDone(t) == tasks[t].pc = "done"

\* no event was delivered after the one task t handles
latest(t) == tasks[t].ev = events

\* the event of p was delivered right before the event of t
rightBefore(p, t) == tasks[p].ev > 0 /\ tasks[t].ev = tasks[p].ev + 1

callsWith(tk, ops) == {k \in 1..Len(tk.calls) : tk.calls[k].op \in ops}

\* ensurePortal has returned its category to the join handler t
ensureReturned(t) ==
  /\ isJoin(t)
  /\ tasks[t].pc \in {"send", "done"}
  /\ tasks[t].category # 0
  /\ \A k \in callsWith(tasks[t], {"createCat", "setPerms", "createText"}) :
       tasks[t].calls[k].res = "ok"

noCallFailed(t) == \A k \in 1..Len(tasks[t].calls) : tasks[t].calls[k].res # "fail"

categoriesNamed(name) ==
  {ch \in channels : ch.type = "GuildCategory" /\ ch.name = name}

textsUnder(cat, name) ==
  {ch \in channels : ch.type = "GuildText" /\ ch.parentId = cat /\ ch.name = name}

\* one category of the name of task t, and one text channel of every
\* configured name under it
onePortal(t) ==
  /\ Cardinality(categoriesNamed(tasks[t].catName)) = 1
  /\ \A c \in categoriesNamed(tasks[t].catName) :
       \A k \in 1..Len(tasks[t].channelNames) :
         Cardinality(textsUnder(c.id, tasks[t].channelNames[k])) = 1

\* ------------------------------------------------------------------- C1

\* ensurePortal ran for the same member in p and then in t, nothing between
\* and nothing after
C1_Twice(p, t) ==
  /\ ensureReturned(p) /\ ensureReturned(t)
  /\ rightBefore(p, t) /\ latest(t)
  /\ tasks[p].member = tasks[t].member
  /\ tasks[p].username = tasks[t].username

\* C1: when ensurePortal has run twice in succession for a member, with no
\* handler in between and no call rejected, the guild holds exactly one
\* category of the member's category name and under it exactly one text
\* channel of every configured name, and the second run created nothing.
C1_Idempotent ==
  \A p \in Tasks, t \in Tasks :
    C1_Twice(p, t) =>
      /\ onePortal(t)
      /\ callsWith(tasks[t], {"createCat", "createText"}) = {}

C1_Witness ==
  \E p \in Tasks, t \in Tasks :
    /\ C1_Twice(p, t)
    /\ callsWith(tasks[p], {"createCat"}) # {}
    /\ Len(tasks[t].channelNames) = 2
    /\ callsWith(tasks[t], {"setPerms"}) # {}

\* ------------------------------------------------------------------- C2

\* deletePortal has left the k-th category it entered
leftCategory(t, k) == k < Len(tasks[t].visited) \/ isDone(t)

deleteIssued(t, op, id) ==
  \E j \in callsWith(tasks[t], {op}) : tasks[t].calls[j].target = id

deleteFailed(t, op, id) ==
  \E j \in callsWith(tasks[t], {op}) :
    tasks[t].calls[j].target = id /\ tasks[t].calls[j].res = "fail"

\* C2: for every category deletePortal matched, by the primary or by the
\* fallback search, when the delete of one of its children is rejected a
\* delete is still issued for every other child and for the category.
C2_ChildFailureIsolated ==
  \A t \in Tasks :
    isLeave(t) =>
      \A k \in 1..Len(tasks[t].visited) :
        LET v == tasks[t].visited[k]
        IN  (/\ leftCategory(t, k)
             /\ \E c \in Range(v.children) : deleteFailed(t, "delChild", c))
            => /\ \A c \in Range(v.children) : deleteIssued(t, "delChild", c)
               /\ deleteIssued(t, "delCat", v.cat)

\* ------------------------------------------------------------------- C3

\* this step issues the delete of a category only when a delete has been
\* issued for every channel the cache then holds under it
C3_Order ==
  \A t \in Tasks :
    (/\ tasks'[t].kind = "leave"
     /\ tasks'[t].pc = "delCat"
     /\ tasks'[t].calls # tasks[t].calls)
    => LET tk == tasks'[t]
           cat == tk.calls[Len(tk.calls)].target
       IN  \A ch \in channels' :
             ch.parentId = cat =>
               \E j \in callsWith(tk, {"delChild"}) : tk.calls[j].target = ch.id

\* after a deletePortal none of whose deletes was rejected, no channel is
\* left whose parent is a category it matched
C3_Removed ==
  \A t \in Tasks :
    (isLeave(t) /\ isDone(t) /\ noCallFailed(t)) =>
      \A k \in 1..Len(tasks[t].visited) :
        \A ch \in channels :
          /\ ch.id # tasks[t].visited[k].cat
          /\ ch.parentId # tasks[t].visited[k].cat

\* C3: in every execution the delete of a matched category is issued only
\* after a delete was issued for each channel whose parent it is, and when no
\* delete is rejected no channel of a matched category outlives it.
C3_ChildrenBeforeCategory == [][C3_Order]_vars /\ []C3_Removed

\* ------------------------------------------------------------------- C4

visitedCategories(t) == [k \in 1..Len(tasks[t].visited) |-> tasks[t].visited[k].cat]

\* C4: deletePortal never throws to the leave handler, whatever deletes are
\* rejected, and once it has returned it has entered every category its
\* search matched, in order, a rejected delete in one of them or not.
C4_NeverThrowsNorAborts ==
  \A t \in Tasks :
    isLeave(t) =>
      /\ tasks[t].outcome \in {"none", "ok"}
      /\ isDone(t) => visitedCategories(t) = list(tasks[t])

C4_Witness ==
  \E t \in Tasks :
    /\ isLeave(t) /\ isDone(t) /\ tasks[t].outcome = "ok"
    /\ Len(list(tasks[t])) = 2
    /\ deleteFailed(t, "delCat", list(tasks[t])[1])
    /\ deleteIssued(t, "delCat", list(tasks[t])[2])

\* ------------------------------------------------------------------- C5

\* the join handler p gave a category to a member who then left, in t, under
\* another username, no event between the two and none after
C5_RenamedLeave(p, t) ==
  /\ isJoin(p) /\ isDone(p) /\ isLeave(t)
  /\ rightBefore(p, t) /\ latest(t)
  /\ tasks[p].member = tasks[t].member
  /\ tasks[p].username # tasks[t].username
  /\ \E k \in callsWith(tasks[p], {"createCat"}) : tasks[p].calls[k].res = "ok"

\* C5: the category ensurePortal created for a member is found by the
\* primary search of deletePortal when the member leaves under another
\* username, the fallback search is not used, and when no delete is rejected
\* the category and all the channels under it are gone.
C5_SurvivesRename ==
  \A p \in Tasks, t \in Tasks :
    C5_RenamedLeave(p, t) =>
      /\ tasks[p].category \in Range(tasks[t].categories)
      /\ ~tasks[t].fallback
      /\ (isDone(t) /\ noCallFailed(t)) =>
           \A ch \in channels :
             ch.id # tasks[p].category /\ ch.parentId # tasks[p].category

C5_Witness ==
  \E p \in Tasks, t \in Tasks :
    /\ C5_RenamedLeave(p, t)
    /\ isDone(t) /\ noCallFailed(t)
    /\ tasks[p].outcome = "ok"
    /\ Len(tasks[t].visited[1].children) = 2
    /\ categoryNameFor(MemberId(tasks[t].member), tasks[t].username) # tasks[p].catName

\* ------------------------------------------------------------------- C6

\* C6: deletePortal makes the fallback search exactly when the primary search
\* returned no category: with a category from the primary search it enters
\* only those categories, each delete rejected or not, and with none it enters
\* the categories of the name-suffix search.
C6_FallbackIffPrimaryEmpty ==
  \A t \in Tasks :
    isLeave(t) =>
      /\ tasks[t].fallback <=> Len(tasks[t].categories) = 0
      /\ Len(tasks[t].categories) # 0 =>
           /\ tasks[t].guess = <<>>
           /\ Range(visitedCategories(t)) \subseteq Range(tasks[t].categories)
      /\ (Len(tasks[t].categories) = 0 /\ isDone(t)) =>
           visitedCategories(t) = tasks[t].guess

\* the primary search matched, every delete was rejected, the category still
\* matches the name-suffix search, and deletePortal returned without it
C6_Witness ==
  \E t \in Tasks :
    /\ isLeave(t) /\ isDone(t)
    /\ Len(tasks[t].categories) = 1
    /\ \A k \in 1..Len(tasks[t].calls) : tasks[t].calls[k].res = "fail"
    /\ guessCategories(channels, MemberId(tasks[t].member)) = tasks[t].categories
    /\ ~tasks[t].fallback

\* the primary search matched nothing and the fallback search did
C6_WitnessFallback ==
  \E t \in Tasks :
    /\ isLeave(t) /\ isDone(t)
    /\ Len(tasks[t].categories) = 0
    /\ Len(tasks[t].guess) > 0
    /\ deleteIssued(t, "delCat", tasks[t].guess[1])

\* ------------------------------------------------------------------- C7

hasEntry(ow, id, allowed, denied) ==
  \E k \in 1..Len(ow) :
    ow[k].id = id /\ allowed \subseteq ow[k].allow /\ denied \subseteq ow[k].deny

\* an entry for a principal that is neither @everyone nor the member
hasStaffEntry(ow, memberId) ==
  \E k \in 1..Len(ow) : ow[k].id \notin {GuildId, memberId}

\* a staff role id is configured, well formed, and the id of a role of the guild
staffRoleUsable ==
  /\ STAFF_ROLE_ID # <<>>
  /\ isValidSnowflake(trim(STAFF_ROLE_ID))
  /\ trim(STAFF_ROLE_ID) \in roles

\* in this step handler t evaluates overwritesFor and issues a call with it
evaluatesOverwrites(t) ==
  /\ tasks'[t].kind = "join"
  /\ Len(tasks'[t].calls) > 0
  /\ tasks'[t].calls # tasks[t].calls
  /\ tasks'[t].calls[Len(tasks'[t].calls)].res = "pending"
  /\ tasks'[t].calls[Len(tasks'[t].calls)].perms # <<>>
  /\ build = 2 \/ tasks'[t].ev # tasks[t].ev

C7_Step ==
  \A t \in Tasks :
    evaluatesOverwrites(t) =>
      LET ow == tasks'[t].calls[Len(tasks'[t].calls)].perms
          id == MemberId(tasks'[t].member)
      IN  /\ hasEntry(ow, GuildId, {}, {"ViewChannel"})
          /\ hasEntry(ow, id, {"ViewChannel"}, {})
          /\ hasStaffEntry(ow, id) <=> staffRoleUsable

\* C7: the overwrite list computed for a member denies view to @everyone,
\* allows the member, and has the staff entry exactly when a staff role id is
\* configured, well formed and the id of a role the guild has at that moment.
C7_Overwrites == [][C7_Step]_vars

\* ------------------------------------------------------------------- C8

\* nothing is left of CHANNEL_NAMES after trimming and dropping empty entries
channelListEmpty == \A k \in 1..Len(CHANNEL_NAMES) : CHANNEL_NAMES[k] \in {" ", ","}

\* C8: with an empty configured channel list no category or channel is ever
\* created and no permission set changed: every join handler issues no remote
\* call, sends no welcome message and ends in its catch-all, and the process
\* is not ended by the error.
C8_EmptyChannelList ==
  channelListEmpty =>
    /\ channels = {}
    /\ ~crashed
    /\ \A t \in Tasks :
         isJoin(t) => /\ isDone(t)
                      /\ tasks[t].outcome = "caught"
                      /\ tasks[t].calls = <<>>

\* a join handler has ended on the empty list and a later event was handled
C8_Witness ==
  \E p \in Tasks, t \in Tasks :
    /\ channelListEmpty
    /\ Len(CHANNEL_NAMES) > 0
    /\ isJoin(p) /\ isDone(p) /\ tasks[p].outcome = "caught"
    /\ rightBefore(p, t) /\ isDone(t)

\* ------------------------------------------------------------------- C9

someCallFailed(t) == \E k \in 1..Len(tasks[t].calls) : tasks[t].calls[k].res = "fail"

\* C9: a rejected remote call of one handler never ends the process: a join
\* handler with a rejected call has ended in its catch-all, a leave handler
\* goes on, and whatever has failed elsewhere every suspended handler can
\* take its next step.
C9_FailuresIsolated ==
  /\ ~crashed
  /\ \A t \in Tasks :
       /\ (isJoin(t) /\ someCallFailed(t)) => (isDone(t) /\ tasks[t].outcome = "caught")
       /\ (isLeave(t) /\ someCallFailed(t)) => tasks[t].outcome \in {"none", "ok"}
       /\ running(t) => ENABLED Resume(t)

\* the join handlers of two members overlapped (t created its category before
\* u created its last channel), a call of t was rejected, and u has run to its
\* end, welcome message included
C9_Witness ==
  \E t \in Tasks, u \in Tasks :
    /\ tasks[t].member # tasks[u].member
    /\ isJoin(t) /\ isDone(t) /\ someCallFailed(t)
    /\ isJoin(u) /\ isDone(u) /\ tasks[u].outcome = "ok"
    /\ tasks[t].category # tasks[u].category
    /\ inCache(channels, tasks[t].category)
    /\ \E ch \in channels :
         ch.parentId = tasks[u].category /\ ch.id > tasks[t].category
    /\ tasks[u].category < tasks[t].category

\* ------------------------------------------------------------------ C10

namesCreated(t) ==
  {tasks[t].calls[k].name :
     k \in {j \in callsWith(tasks[t], {"createText"}) : tasks[t].calls[j].res = "ok"}}

\* the join handler p created the category and stopped short of the last
\* channel; ensurePortal then ran for the same member in t and returned
C10_Heals(p, t) ==
  /\ isJoin(p) /\ isDone(p) /\ tasks[p].outcome = "caught"
  /\ \E k \in callsWith(tasks[p], {"createCat"}) : tasks[p].calls[k].res = "ok"
  /\ \E k \in callsWith(tasks[p], {"createText"}) : tasks[p].calls[k].res = "fail"
  /\ ensureReturned(t)
  /\ rightBefore(p, t) /\ latest(t)
  /\ tasks[p].member = tasks[t].member
  /\ tasks[p].username = tasks[t].username

\* C10: an ensurePortal that meets no rejection after an ensurePortal for the
\* same member that stopped part way keeps the category, creates exactly the
\* channels that were missing, each once, and leaves one category with one
\* channel of every configured name.
C10_SelfHeals ==
  \A p \in Tasks, t \in Tasks :
    C10_Heals(p, t) =>
      /\ tasks[t].category = tasks[p].category
      /\ callsWith(tasks[t], {"createCat"}) = {}
      /\ namesCreated(t) = Range(tasks[t].channelNames) \ namesCreated(p)
      /\ Cardinality(callsWith(tasks[t], {"createText"})) = Cardinality(namesCreated(t))
      /\ onePortal(t)

C10_Witness ==
  \E p \in Tasks, t \in Tasks :
    /\ C10_Heals(p, t)
    /\ Cardinality(namesCreated(p)) = 1
    /\ Cardinality(namesCreated(t)) = 1

\* ------------------------------------------------------------------ C11

\* C11: when ensurePortal has returned its category to the join handler of a
\* member and no event came after, every text channel of a configured name
\* under that category carries overwrites that deny view to @everyone and
\* allow the member, the category and channels found or created.
C11_ChannelsCarryOverwrites ==
  \A t \in Tasks :
    (ensureReturned(t) /\ latest(t)) =>
      \A k \in 1..Len(tasks[t].channelNames) :
        \A ch \in textsUnder(tasks[t].category, tasks[t].channelNames[k]) :
          /\ hasEntry(ch.ow, GuildId, {}, {"ViewChannel"})
          /\ hasEntry(ch.ow, MemberId(tasks[t].member), {"ViewChannel"}, {})

\* ------------------------------------------------------------------ C12

\* categoryNameFor has been called for the member of task t
named(t) == tasks[t].catName # <<>>

\* a username with every character outside [a-zA-Z0-9-_] removed, then
\* lowercased
RECURSIVE sanitized(_)
sanitized(name) ==
  IF name = <<>> THEN <<>>
  ELSE IF Head(name) \in Range(LowerLetters) \cup Digits \cup {"-", "_"}
         THEN <<Head(name)>> \o sanitized(Tail(name))
  ELSE IF Head(name) \in Range(UpperLetters)
         THEN <<toLowerCase(Head(name))>> \o sanitized(Tail(name))
  ELSE sanitized(Tail(name))

\* the last four characters of an id
last4(id) == [k \in 1..4 |-> id[Len(id) - 4 + k]]

\* this step leaves the name of every member that has one as it is
C12_SameOnRepeat ==
  \A t \in Tasks : named(t) => tasks'[t].catName = tasks[t].catName

\* the name is the prefix, the sanitized username, a hyphen and the last four
\* characters of the id, and two members have the same name exactly when
\* they have the same sanitized username and the same last four characters
C12_NameOf ==
  \A t \in Tasks, u \in Tasks :
    (named(t) /\ named(u)) =>
      /\ tasks[t].catName =
           CATEGORY_PREFIX \o sanitized(tasks[t].username) \o <<"-">>
             \o last4(MemberId(tasks[t].member))
      /\ (tasks[t].catName = tasks[u].catName)
           <=> /\ sanitized(tasks[t].username) = sanitized(tasks[u].username)
               /\ last4(MemberId(tasks[t].member)) = last4(MemberId(tasks[u].member))

\* C12: categoryNameFor returns prefix + S + "-" + last4(I), S being the
\* username with the characters outside [a-zA-Z0-9-_] removed and then
\* lowercased; a repeated call returns the same name, and two members get
\* the same name exactly when their S and their last4(I) are the same.
C12_Deterministic == [][C12_SameOnRepeat]_vars /\ []C12_NameOf

\* two members of different ids and different usernames have the same name,
\* and characters were removed and lowercased
C12_Witness ==
  \E t \in Tasks, u \in Tasks :
    /\ named(t) /\ named(u)
    /\ tasks[t].member # tasks[u].member
    /\ tasks[t].username # tasks[u].username
    /\ tasks[t].catName = tasks[u].catName
    /\ Len(tasks[t].catName) < Len(CATEGORY_PREFIX) + Len(tasks[t].username) + 5
    /\ \E k \in 1..Len(tasks[t].username) : tasks[t].username[k] \in Range(UpperLetters)

\* ------------------------------------------------------------------ C13

\* the create of the category issued by join handler t has resolved
createdCategory(t) ==
  /\ isJoin(t)
  /\ \E k \in callsWith(tasks[t], {"createCat"}) : tasks[t].calls[k].res = "ok"

\* C13: nothing stands between a join handler that saw no category of its
\* name and the creation: while its create is pending it can resolve, a
\* category of that name in the guild by then or not, and two join handlers
\* whose creates have both resolved hold two different categories, of one
\* name when the two handlers are for the same member and username.
C13_DuplicateJoinRace ==
  /\ \A t \in Tasks :
       (isJoin(t) /\ pending(t, "createCat")) => ENABLED CreateCatOk(t)
  /\ \A t \in Tasks, u \in Tasks :
       (/\ t # u
        /\ createdCategory(t) /\ createdCategory(u)
        /\ inCache(channels, tasks[t].category)
        /\ inCache(channels, tasks[u].category))
       => /\ tasks[t].category # tasks[u].category
          /\ tasks[t].catName = tasks[u].catName
               => Cardinality(categoriesNamed(tasks[t].catName)) >= 2

\* two join handlers for one member have run with no call rejected, each has
\* created a category, and the guild holds the two under one name
C13_Witness ==
  \E t \in Tasks, u \in Tasks :
    /\ t # u
    /\ tasks[t].member = tasks[u].member
    /\ createdCategory(t) /\ createdCategory(u)
    /\ isDone(t) /\ isDone(u) /\ noCallFailed(t) /\ noCallFailed(u)
    /\ Cardinality(categoriesNamed(tasks[t].catName)) = 2
    /\ categoriesNamed(tasks[t].catName) = categoriesNamed(tasks[u].catName)

\* ------------------------------------------------------------------ C14

\* the categories that carry an overwrite of the member and are named with
\* the prefix and the last four characters of the member's id
categoriesOf(m) ==
  {ch \in channels :
     /\ ch.type = "GuildCategory"
     /\ owHas(ch.ow, MemberId(m))
     /\ startsWith(ch.name, CATEGORY_PREFIX)
     /\ endsWith(ch.name, <<"-">> \o sliceLast4(MemberId(m)))}

\* C14: with the handlers run one after the other, whenever none is
\* suspended and no call was rejected in the handlers last run, every member
\* has at most one category that carries the member's overwrite and is named
\* with the prefix and the member's suffix.
C14_OneCategoryPerMember ==
  (Quiet /\ \A t \in Tasks : noCallFailed(t)) =>
    \A m \in Members : Cardinality(categoriesOf(m)) <= 1

\* ------------------------------------------------------------------ C15

\* in this step the join handler t starts
startsJoin(t) == tasks'[t].kind = "join" /\ tasks'[t].ev # tasks[t].ev

\* in this step the permissionOverwrites.set of join handler t resolves
setResolves(t) ==
  /\ tasks[t].pc = "setPerms"
  /\ tasks'[t].calls[Len(tasks[t].calls)].res = "ok"

\* a join handler that starts with a category of its name in the guild and a
\* channel list issues one call, the set of the overwrites computed then on
\* the first category of that name
C15_Issue ==
  \A t \in Tasks :
    (/\ startsJoin(t)
     /\ findCategory(channels, tasks'[t].catName) # 0
     /\ Len(tasks'[t].channelNames) # 0)
    => tasks'[t].calls =
         << Call("setPerms", findCategory(channels, tasks'[t].catName), <<>>,
                 overwritesFor(build, STAFF_ROLE_ID, roles,
                               MemberId(tasks'[t].member)), FALSE) >>

\* when the set resolves the category has the overwrites of the call, and no
\* channel is created or deleted
C15_Resolve ==
  \A t \in Tasks :
    setResolves(t) =>
      LET call == tasks[t].calls[Len(tasks[t].calls)]
      IN  /\ \E ch \in channels' : ch.id = call.target /\ ch.ow = call.perms
          /\ {ch.id : ch \in channels'} = {ch.id : ch \in channels}

\* a handler that issued the set never issues the create of a category
C15_NoCreate ==
  \A t \in Tasks :
    callsWith(tasks[t], {"setPerms"}) # {} => callsWith(tasks[t], {"createCat"}) = {}

\* C15: when ensurePortal finds a category of the exact name it creates no
\* category and sets the overwrites of that category to the list overwritesFor
\* gives when the call is made, whatever overwrites the category had.
C15_RefreshesOverwrites == [][C15_Issue /\ C15_Resolve]_vars /\ []C15_NoCreate

\* the category was created without the staff entry, the staff role came to
\* the guild, and the next join of the member has put the entry on it
C15_Witness ==
  \E p \in Tasks, t \in Tasks :
    /\ rightBefore(p, t) /\ isJoin(p) /\ isJoin(t)
    /\ tasks[p].member = tasks[t].member
    /\ tasks[p].calls # <<>> /\ tasks[t].calls # <<>>
    /\ tasks[p].calls[1].op = "createCat" /\ tasks[p].calls[1].res = "ok"
    /\ ~hasStaffEntry(tasks[p].calls[1].perms, MemberId(tasks[p].member))
    /\ tasks[t].calls[1].op = "setPerms" /\ tasks[t].calls[1].res = "ok"
    /\ tasks[t].calls[1].target = tasks[p].category
    /\ latest(t) /\ isDone(t)
    /\ build = 1
    /\ \E ch \in channels :
         /\ ch.id = tasks[p].category
         /\ hasStaffEntry(ch.ow, MemberId(tasks[t].member))

\* ------------------------------------------------------------------ C16

\* the calls of handler t that are the same request as its k-th call
sameRequest(t, k) ==
  {j \in 1..Len(tasks[t].calls) :
     /\ tasks[t].calls[j].op = tasks[t].calls[k].op
     /\ tasks[t].calls[j].target = tasks[t].calls[k].target
     /\ tasks[t].calls[j].name = tasks[t].calls[k].name}

\* C16: a join handler issues every request once at most: one create or one
\* permission set of the category, one create for a channel name, one send;
\* and a rejected call is the last call of the run: the handler has ended in
\* its catch-all, no channel was created after it and no welcome sent.
C16_NoRetryAbortAtFailure ==
  \A t \in Tasks :
    isJoin(t) =>
      /\ \A k \in 1..Len(tasks[t].calls) : sameRequest(t, k) = {k}
      /\ Cardinality(callsWith(tasks[t], {"createCat", "setPerms"})) <= 1
      /\ Cardinality(callsWith(tasks[t], {"send"})) <= 1
      /\ \A k \in 1..Len(tasks[t].calls) :
           tasks[t].calls[k].res = "fail" =>
             /\ k = Len(tasks[t].calls)
             /\ isDone(t) /\ tasks[t].outcome = "caught"
             /\ callsWith(tasks[t], {"send"}) \subseteq {k}

\* the create of the first channel was rejected: the category is there, no
\* channel is under it, the second channel was never asked for and no
\* welcome message was sent
C16_Witness ==
  \E t \in Tasks :
    /\ isJoin(t) /\ isDone(t)
    /\ Len(tasks[t].channelNames) = 2
    /\ Len(tasks[t].calls) = 2
    /\ tasks[t].calls[1].op = "createCat" /\ tasks[t].calls[1].res = "ok"
    /\ tasks[t].calls[2].op = "createText" /\ tasks[t].calls[2].res = "fail"
    /\ tasks[t].calls[2].name = tasks[t].channelNames[1]
    /\ inCache(channels, tasks[t].category)
    /\ \A ch \in channels : ch.parentId # tasks[t].category

\* ------------------------------------------------------------------ C17

isStuck(t) == tasks[t].pc = "stuck"

\* C17: with the continuation of every settled call run, whenever the call
\* of one handler is stuck, every other handler that is under way, started
\* before or after, runs to its end.
C17_StuckCallStallsOnlyItsHandler ==
  \A t \in Tasks, u \in Tasks :
    (isStuck(u) /\ t # u /\ running(t)) ~> isDone(t)

\* the join handler of a member is stuck on the create of the first channel,
\* and the leave handler of the member, started later, has deleted the
\* category and run to its end
C17_Witness ==
  \E t \in Tasks, u \in Tasks :
    /\ isStuck(u) /\ isJoin(u)
    /\ tasks[u].calls[Len(tasks[u].calls)].op = "createText"
    /\ isLeave(t) /\ isDone(t) /\ tasks[t].outcome = "ok"
    /\ tasks[t].ev > tasks[u].ev
    /\ deleteIssued(t, "delCat", tasks[u].category)
    /\ noCallFailed(t)
    /\ ~inCache(channels, tasks[u].category)

\* ------------------------------------------------------------------ C18

\* in this step the join handler t issues the send of the welcome message
sendsWelcome(t) ==
  /\ tasks'[t].kind = "join"
  /\ tasks'[t].pc = "send"
  /\ tasks[t].pc # "send" \/ tasks'[t].ev # tasks[t].ev

\* the welcome message is issued once ensurePortal has returned its category
\* with no call rejected, to a text channel under that category, and it has
\* the words about the staff exactly when a staff role id is configured, well
\* formed and the id of a role of the guild in that state
C18_Step ==
  \A t \in Tasks :
    sendsWelcome(t) =>
      LET tk == tasks'[t]
          call == tk.calls[Len(tk.calls)]
      IN  /\ call.op = "send"
          /\ tk.category # 0
          /\ \A k \in 1..(Len(tk.calls) - 1) :
               /\ tk.calls[k].op \in {"createCat", "setPerms", "createText"}
               /\ tk.calls[k].res = "ok"
          /\ \E ch \in channels' :
               /\ ch.id = call.target
               /\ ch.type = "GuildText"
               /\ ch.parentId = tk.category
          /\ call.staff <=> staffRoleUsable

\* C18: a join handler sends the welcome message only after ensurePortal has
\* returned with no call rejected, into a text channel of the returned
\* category, with the words about the staff exactly when the staff role id is
\* configured, well formed and resolves to a role at that moment, and it
\* sends it once at most.
C18_Welcome ==
  /\ [][C18_Step]_vars
  /\ [](\A t \in Tasks : Cardinality(callsWith(tasks[t], {"send"})) <= 1)

\* ------------------------------------------------------------------ C19

\* the channels the join handler j created that the guild still holds
createdBy(j) ==
  {ch \in channels :
     \/ ch.id = tasks[j].category /\ createdCategory(j)
     \/ /\ ch.type = "GuildText"
        /\ ch.parentId = tasks[j].category
        /\ ch.name \in namesCreated(j)}

\* C19: when a join handler and the handler of a later leave of the same
\* member have both run to their end with no call rejected, however their
\* steps were interleaved, the guild holds no category and no text channel
\* that the join handler created.
C19_JoinThenLeaveRemovesAll ==
  \A j \in Tasks, l \in Tasks :
    (/\ isJoin(j) /\ isLeave(l)
     /\ tasks[j].member = tasks[l].member
     /\ tasks[l].ev > tasks[j].ev
     /\ isDone(j) /\ isDone(l)
     /\ noCallFailed(j) /\ noCallFailed(l))
    => createdBy(j) = {}

\* ------------------------------------------------------------------ C20

\* member m is in the guild: a join of m was handled and no leave of m after it
present(m) ==
  \E j \in Tasks :
    /\ isJoin(j) /\ tasks[j].member = m
    /\ \A k \in Tasks :
         (isLeave(k) /\ tasks[k].member = m) => tasks[k].ev < tasks[j].ev

\* in this step a category.delete of the leave handler l resolves
deletesCategory(l) ==
  /\ tasks[l].kind = "leave"
  /\ tasks[l].pc = "delCat"
  /\ tasks'[l].calls[Len(tasks[l].calls)].res = "ok"

\* the category deleted carries an overwrite of the member who left, or no
\* overwrite of another member who is in the guild
C20_Step ==
  \A l \in Tasks :
    deletesCategory(l) =>
      \A ch \in channels :
        ch.id = list(tasks[l])[tasks[l].ci] =>
          \/ owHas(ch.ow, MemberId(tasks[l].member))
          \/ \A m \in Members \ {tasks[l].member} :
               present(m) => ~owHas(ch.ow, MemberId(m))

\* C20: deletePortal for a member deletes no category of another member:
\* every category it deletes, found by the primary or by the fallback search,
\* carries an overwrite of the member who left or none of a member who is
\* still in the guild.
C20_DeletesOnlyOwnPortal == [][C20_Step]_vars

====
